---- MODULE Spec2Model ----
(***************************************************************************)
(* Virtual power plant: the Battery stepping model, the in-memory battery  *)
(* registry behind the HTTP routes, and the dispatch optimizer             *)
(* (load_optimization_data + optimize).                                    *)
(*                                                                         *)
(* Numbers.  The program computes in floats; the model computes exactly on *)
(* integers.  Every quantity (kW, kWh, price) is an integer; the request   *)
(* values below are multiples of 8 and round_trip_efficiency is the        *)
(* fraction num/den (1/2 or 1; 19/20 in the documentation's scenarios, in   *)
(* units that suit it), so that every product with eta and every quotient  *)
(* by eta or by a duration the program forms is exact.                     *)
(* Time steps are numbered 0 .. T-1 as in the program.                     *)
(***************************************************************************)
EXTENDS Integers, Sequences, FiniteSets, TLC

VARIABLES batteries, response, run, calls, inflight

vars == <<batteries, response, run, calls, inflight>>

(***************************************************************************)
(* Bounds of the model.                                                    *)
(***************************************************************************)
\* most batteries the registry is filled with
MaxBatteries == 2
\* longest forecast horizon (rows of a forecast series)
MaxT == 2
\* most method calls a script makes on the Battery object it built
MaxCalls == 2
\* most POST /optimize requests being served at the same time
MaxInFlight == 2

(***************************************************************************)
(* Arithmetic helpers.                                                     *)
(***************************************************************************)
min(a, b) == IF a <= b THEN a ELSE b

abs(a) == IF a < 0 THEN 0 - a ELSE a

\* x * eta, eta = [num, den]
MulEta(x, eta) == (x * eta.num) \div eta.den

\* x / eta
DivEta(x, eta) == (x * eta.den) \div eta.num

\* s.iloc[t] of a column held as a sequence, t counted from 0
iloc(s, t) == s[t + 1]

RECURSIVE SeqSum(_)
SeqSum(s) == IF s = <<>> THEN 0 ELSE Head(s) + SeqSum(Tail(s))

(***************************************************************************)
(* Battery (storage/battery.py).                                           *)
(***************************************************************************)
\* Battery.__init__: stores the arguments, clamps the initial SOC
Battery(battery_id, capacity_kWh, current_soc_kWh, max_charge_kW, max_discharge_kW, round_trip_efficiency) ==
    [battery_id |-> battery_id,
     capacity_kWh |-> capacity_kWh,
     current_soc_kWh |->
         IF current_soc_kWh < 0 THEN 0
         ELSE IF current_soc_kWh > capacity_kWh THEN capacity_kWh
         ELSE current_soc_kWh,
     max_charge_kW |-> max_charge_kW,
     max_discharge_kW |-> max_discharge_kW,
     round_trip_efficiency |-> round_trip_efficiency]

\* Battery.charge without the cap to the remaining capacity
charge_uncapped(bat, power_kW, duration_h) ==
    LET p1 == min(power_kW, bat.max_charge_kW)
        p == IF p1 < 0 THEN 0 ELSE p1
        energy_to_add_kWh == MulEta(p * duration_h, bat.round_trip_efficiency)
    IN  [battery |-> [bat EXCEPT !.current_soc_kWh = @ + energy_to_add_kWh],
         raised |-> IF duration_h = 0 THEN "ZeroDivisionError" ELSE "",
         actual_power_kW |-> p]

\* Battery.charge without the floor of the requested power at 0
charge_unfloored(bat, power_kW, duration_h) ==
    LET p == min(power_kW, bat.max_charge_kW)
        energy_to_add_kWh == MulEta(p * duration_h, bat.round_trip_efficiency)
        available_capacity_kWh == bat.capacity_kWh - bat.current_soc_kWh
        actual_energy_added_kWh == min(energy_to_add_kWh, available_capacity_kWh)
    IN  [battery |-> [bat EXCEPT !.current_soc_kWh = @ + actual_energy_added_kWh],
         raised |-> IF duration_h = 0 THEN "ZeroDivisionError" ELSE "",
         actual_power_kW |->
             IF duration_h = 0 THEN 0
             ELSE DivEta(actual_energy_added_kWh \div duration_h,
                         bat.round_trip_efficiency)]

\* Battery.charge returning the requested power in place of the achieved one
charge_returns_request(bat, power_kW, duration_h) ==
    LET p1 == min(power_kW, bat.max_charge_kW)
        p == IF p1 < 0 THEN 0 ELSE p1
        energy_to_add_kWh == MulEta(p * duration_h, bat.round_trip_efficiency)
        available_capacity_kWh == bat.capacity_kWh - bat.current_soc_kWh
        actual_energy_added_kWh == min(energy_to_add_kWh, available_capacity_kWh)
    IN  [battery |-> [bat EXCEPT !.current_soc_kWh = @ + actual_energy_added_kWh],
         raised |-> IF duration_h = 0 THEN "ZeroDivisionError" ELSE "",
         actual_power_kW |-> p]

\* Battery.charge: the battery afterwards, the exception raised if any (the
\* SOC is updated before the quotient by duration_h is formed) and the power
\* returned
charge(bat, power_kW, duration_h) ==
    LET p1 == min(power_kW, bat.max_charge_kW)
        p == IF p1 < 0 THEN 0 ELSE p1
        energy_to_add_kWh == MulEta(p * duration_h, bat.round_trip_efficiency)
        available_capacity_kWh == bat.capacity_kWh - bat.current_soc_kWh
        actual_energy_added_kWh == min(energy_to_add_kWh, available_capacity_kWh)
    IN  [battery |-> [bat EXCEPT !.current_soc_kWh = @ + actual_energy_added_kWh],
         raised |-> IF duration_h = 0 THEN "ZeroDivisionError" ELSE "",
         actual_power_kW |->
             IF duration_h = 0 THEN 0
             ELSE DivEta(actual_energy_added_kWh \div duration_h,
                         bat.round_trip_efficiency)]

\* Battery.discharge draining the delivered energy, not delivered / eta
discharge_drains_delivered(bat, power_kW, duration_h) ==
    LET p1 == min(power_kW, bat.max_discharge_kW)
        p == IF p1 < 0 THEN 0 ELSE p1
        energy_requested_kWh == p * duration_h
        available_energy_kWh == bat.current_soc_kWh
        actual_energy_delivered_kWh ==
            min(energy_requested_kWh,
                MulEta(available_energy_kWh, bat.round_trip_efficiency))
    IN  [battery |->
             [bat EXCEPT !.current_soc_kWh = @ - actual_energy_delivered_kWh],
         raised |-> IF duration_h = 0 THEN "ZeroDivisionError" ELSE "",
         actual_power_kW |->
             IF duration_h = 0 THEN 0
             ELSE actual_energy_delivered_kWh \div duration_h]

\* Battery.discharge taking the requested power as the requested energy
discharge_ignores_duration(bat, power_kW, duration_h) ==
    LET p1 == min(power_kW, bat.max_discharge_kW)
        p == IF p1 < 0 THEN 0 ELSE p1
        energy_requested_kWh == p
        available_energy_kWh == bat.current_soc_kWh
        actual_energy_delivered_kWh ==
            min(energy_requested_kWh,
                MulEta(available_energy_kWh, bat.round_trip_efficiency))
    IN  [battery |->
             [bat EXCEPT !.current_soc_kWh =
                 @ - DivEta(actual_energy_delivered_kWh, bat.round_trip_efficiency)],
         raised |-> IF duration_h = 0 THEN "ZeroDivisionError" ELSE "",
         actual_power_kW |->
             IF duration_h = 0 THEN 0
             ELSE actual_energy_delivered_kWh \div duration_h]

\* Battery.discharge: the battery afterwards, the exception raised if any and
\* the power returned
discharge(bat, power_kW, duration_h) ==
    LET p1 == min(power_kW, bat.max_discharge_kW)
        p == IF p1 < 0 THEN 0 ELSE p1
        energy_requested_kWh == p * duration_h
        available_energy_kWh == bat.current_soc_kWh
        actual_energy_delivered_kWh ==
            min(energy_requested_kWh,
                MulEta(available_energy_kWh, bat.round_trip_efficiency))
    IN  [battery |->
             [bat EXCEPT !.current_soc_kWh =
                 @ - DivEta(actual_energy_delivered_kWh, bat.round_trip_efficiency)],
         raised |-> IF duration_h = 0 THEN "ZeroDivisionError" ELSE "",
         actual_power_kW |->
             IF duration_h = 0 THEN 0
             ELSE actual_energy_delivered_kWh \div duration_h]

(***************************************************************************)
(* The registry: the module-level dict `batteries`, an insertion-ordered   *)
(* map battery_id -> Battery, held as the sequence of its values (every    *)
(* value is stored under its own battery_id).  battery_id n stands for the *)
(* string "battery_n".                                                     *)
(***************************************************************************)
Keys(d) == {d[i].battery_id : i \in 1..Len(d)}

\* position of key k in the dict
IndexOf(d, k) == CHOOSE i \in 1..Len(d) : d[i].battery_id = k

\* d[k]
Get(d, k) == d[IndexOf(d, k)]

\* d[bat.battery_id] = bat: replaces in place or appends
DictSet(d, bat) ==
    IF bat.battery_id \in Keys(d)
    THEN [d EXCEPT ![IndexOf(d, bat.battery_id)] = bat]
    ELSE Append(d, bat)

\* del d[k]
DictDel(d, k) ==
    LET i == IndexOf(d, k)
    IN  SubSeq(d, 1, i - 1) \o SubSeq(d, i + 1, Len(d))

(***************************************************************************)
(* Forecast store.  A series is what crud_manager.load_forecasted_data     *)
(* returns: a time index and a yhat column of the same length.  A database *)
(* holds one series per solar source, one per wind source, the load series *)
(* and the market series.  Timestamps are integers.                        *)
(***************************************************************************)
Series(index, yhat) == [index |-> index, yhat |-> yhat]

\* the timestamps off+1 .. off+n
Stamps(n, off) == [i \in 1..n |-> i + off]

\* forecast profiles over n rows
Flat(n, v) == [i \in 1..n |-> v]

FirstOnly(n, v) == [i \in 1..n |-> IF i = 1 THEN v ELSE 0]

LastOnly(n, v, w) == [i \in 1..n |-> IF i = n THEN v ELSE w]

Rising(n) == [i \in 1..n |-> i]

SolarForecasts(n) ==
    { <<Series(Stamps(n, 0), Flat(n, 0))>>,
      <<Series(Stamps(n, 0), FirstOnly(n, 8)), Series(Stamps(n, 0), FirstOnly(n, 8))>> }

WindForecasts(n) == { <<Series(Stamps(n, 0), Flat(n, 0))>> }

LoadForecasts(n, off) ==
    { Series(Stamps(n, off), Flat(n, 0)),
      Series(Stamps(n, off), Flat(n, 8)),
      Series(Stamps(n, off), LastOnly(n, 1008, 8)) }

MarketForecasts(n) ==
    { Series(Stamps(n, 0), Flat(n, 1)), Series(Stamps(n, 0), Rising(n)) }

\* the databases whose four series cover the same n timestamps
AlignedDatabases(n) ==
    [solar : SolarForecasts(n), wind : WindForecasts(n),
     load : LoadForecasts(n, 0), market : MarketForecasts(n)]

\* databases whose series do not line up: the load forecast covers later
\* timestamps, the load forecast is one row short, the market forecast is one
\* row short
MisalignedDatabases(n) ==
    { [solar |-> <<Series(Stamps(n, 0), Flat(n, 0))>>,
       wind |-> <<Series(Stamps(n, 0), Flat(n, 0))>>,
       load |-> Series(Stamps(n, 1), Flat(n, 8)),
       market |-> Series(Stamps(n, 0), Flat(n, 1))],
      [solar |-> <<Series(Stamps(n, 0), Flat(n, 0))>>,
       wind |-> <<Series(Stamps(n, 0), Flat(n, 0))>>,
       load |-> Series(Stamps(n - 1, 0), Flat(n - 1, 8)),
       market |-> Series(Stamps(n, 0), Flat(n, 1))],
      [solar |-> <<Series(Stamps(n, 0), Flat(n, 0))>>,
       wind |-> <<Series(Stamps(n, 0), Flat(n, 0))>>,
       load |-> Series(Stamps(n, 0), Flat(n, 8)),
       market |-> Series(Stamps(n - 1, 0), Flat(n - 1, 1))] }

\* the databases optimize is run against
Databases ==
    UNION { AlignedDatabases(n) : n \in 0..MaxT }
    \cup UNION { MisalignedDatabases(n) : n \in 1..MaxT }

\* the four series of a database are aligned: same length and same index
Aligned(db) ==
    /\ \A i \in 1..Len(db.solar) : db.solar[i].index = db.solar[1].index
    /\ \A i \in 1..Len(db.wind) : db.wind[i].index = db.solar[1].index
    /\ db.load.index = db.solar[1].index
    /\ db.market.index = db.solar[1].index

(***************************************************************************)
(* load_optimization_data (optimization.py 16-104).                        *)
(***************************************************************************)
\* frame.index = reference_index keeps the column and raises ValueError on a
\* length mismatch
SetIndex(series, reference_index) ==
    IF Len(series.yhat) # Len(reference_index)
    THEN [raised |-> "ValueError", index |-> <<>>, yhat |-> <<>>]
    ELSE [raised |-> "", index |-> reference_index, yhat |-> series.yhat]

\* the loop over the source ids of one type: the first series is copied,
\* every further one is re-indexed onto the first and added to it
RECURSIVE SumSources(_, _)
SumSources(total, rest) ==
    IF rest = <<>> \/ total.raised # "" THEN total
    ELSE LET df == SetIndex(Head(rest), total.index)
         IN  IF df.raised # "" THEN df
             ELSE SumSources(
                    [raised |-> "", index |-> total.index,
                     yhat |-> [i \in 1..Len(total.yhat) |-> total.yhat[i] + df.yhat[i]]],
                    Tail(rest))

Total(sources) ==
    SumSources([raised |-> "", index |-> sources[1].index, yhat |-> sources[1].yhat],
               Tail(sources))

NoFrame ==
    [index |-> <<>>, solar |-> <<>>, wind |-> <<>>, load |-> <<>>, price |-> <<>>]

\* load_optimization_data: the aligned frame, or the exception raised
load_optimization_data(db) ==
    LET df_solar_total == Total(db.solar)
        df_wind_total == Total(db.wind)
        reference_index == df_solar_total.index
        wind == SetIndex(df_wind_total, reference_index)
        load == SetIndex(db.load, reference_index)
        market == SetIndex(db.market, reference_index)
    IN  IF \/ df_solar_total.raised # "" \/ df_wind_total.raised # ""
           \/ wind.raised # "" \/ load.raised # "" \/ market.raised # ""
        THEN [raised |-> "ValueError", df |-> NoFrame]
        ELSE [raised |-> "",
              df |-> [index |-> reference_index,
                      solar |-> df_solar_total.yhat,
                      wind |-> wind.yhat,
                      load |-> load.yhat,
                      price |-> market.yhat]]

(***************************************************************************)
(* The linear program optimize builds (optimization.py 150-260).           *)
(*                                                                         *)
(* A point gives every decision variable a value:                          *)
(*   bat[b_label]  the sequence over t of [charge, discharge, soc],        *)
(*   grid          the sequence over t of [grid_buy, grid_sell, delta].    *)
(* The solver searches the points whose charge and discharge powers are    *)
(* multiples of 8 and whose SOC is a multiple of 4 within the variables'   *)
(* bounds; the values the program can reach stay on this lattice.          *)
(***************************************************************************)
\* Big-M for buy/sell constraints
M == 1000

\* LpVariable(lowBound=0, upBound=ub) for a charge or discharge power
PowerValues(ub) == {x \in 0..ub : x % 8 = 0}

\* LpVariable(lowBound=0, upBound=capacity_kWh) for a SOC
SocValues(ub) == {x \in 0..ub : x % 4 = 0}

\* the value of battery_charge[(b_label, t)], battery_discharge[..], battery_soc[..]
battery_charge(point, b_label, t) == point.bat[b_label][t + 1].charge

battery_discharge(point, b_label, t) == point.bat[b_label][t + 1].discharge

battery_soc(point, b_label, t) == point.bat[b_label][t + 1].soc

grid_buy(point, t) == point.grid[t + 1].grid_buy

grid_sell(point, t) == point.grid[t + 1].grid_sell

delta(point, t) == point.grid[t + 1].delta

\* the step's variables with the SOC variable's upBound left off
StepValuesSocUnbounded(bat) ==
    [charge : PowerValues(bat.max_charge_kW),
     discharge : PowerValues(bat.max_discharge_kW),
     soc : SocValues(2 * bat.capacity_kWh + 8)]

\* the variables of battery `bat` at one step, within their bounds
StepValues(bat) ==
    [charge : PowerValues(bat.max_charge_kW),
     discharge : PowerValues(bat.max_discharge_kW),
     soc : SocValues(bat.capacity_kWh)]

\* the SOC recurrence read off the previous step's charge and discharge
SocUpdateLagged(bat, prev, cur) ==
    cur.soc = prev.soc
              + MulEta(prev.charge, bat.round_trip_efficiency)
              - prev.discharge

\* SOC(t) = SOC(t-1) + eta * Charge(t) - Discharge(t), for t >= 1
SocUpdate(bat, prev, cur) ==
    cur.soc = prev.soc
              + MulEta(cur.charge, bat.round_trip_efficiency)
              - cur.discharge

\* Initial SOC constraint: SOC(0) = current_soc_kWh
SocInitial(bat, first) == first.soc = bat.current_soc_kWh

\* the value sequences over steps 0 .. t of one battery's variables that
\* satisfy that battery's constraints
RECURSIVE BatterySchedules(_, _)
BatterySchedules(bat, t) ==
    IF t = 0
    THEN { <<first>> : first \in {v \in StepValues(bat) : SocInitial(bat, v)} }
    ELSE UNION { { Append(tr, cur) :
                     cur \in {v \in StepValues(bat) : SocUpdate(bat, tr[t], v)} }
                 : tr \in BatterySchedules(bat, t - 1) }

\* the maps b_label -> schedule over T steps of the first k batteries
RECURSIVE FleetSchedules(_, _, _)
FleetSchedules(fleet, k, T) ==
    IF k = 0 THEN { <<>> }
    ELSE LET own == BatterySchedules(fleet[k], T - 1)
         IN  UNION { { (fleet[k].battery_id :> tr) @@ rest : tr \in own }
                     : rest \in FleetSchedules(fleet, k - 1, T) }

\* the sum of f over the set S
RECURSIVE SumOver(_, _)
SumOver(S, f) ==
    IF S = {} THEN 0
    ELSE LET x == CHOOSE x \in S : TRUE IN f[x] + SumOver(S \ {x}, f)

\* net excess with the batteries' charging counted as load
net_excess_charge_as_load(df, bat, t) ==
    iloc(df.solar, t) + iloc(df.wind, t) - iloc(df.load, t)
    - SumOver(DOMAIN bat, [b_label \in DOMAIN bat |-> bat[b_label][t + 1].charge])
    + SumOver(DOMAIN bat, [b_label \in DOMAIN bat |-> bat[b_label][t + 1].discharge])

\* net_excess = solar + wind - load + sum of Charge - sum of Discharge at step t,
\* the sums running over every battery's variable of that step
net_excess(df, bat, t) ==
    iloc(df.solar, t) + iloc(df.wind, t) - iloc(df.load, t)
    + SumOver(DOMAIN bat, [b_label \in DOMAIN bat |-> bat[b_label][t + 1].charge])
    - SumOver(DOMAIN bat, [b_label \in DOMAIN bat |-> bat[b_label][t + 1].discharge])

\* the values the solver tries for grid_buy[t] and grid_sell[t] (lowBound=0)
GridValues(ne) == {v \in {0, 8, abs(ne) - 8, abs(ne), abs(ne) + 8} : v >= 0}

\* the buy/sell constraints without grid_sell[t] <= M*delta[t]
GridConstraintsSellLoose(ne, g) ==
    /\ g.grid_sell >= ne
    /\ g.grid_sell >= 0
    /\ g.grid_sell <= ne + M * (1 - g.delta)
    /\ g.grid_buy >= 0 - ne
    /\ g.grid_buy >= 0
    /\ g.grid_buy <= (0 - ne) + M * g.delta
    /\ g.grid_buy <= M * (1 - g.delta)

\* the eight big-M buy/sell constraints of one step
GridConstraints(ne, g) ==
    /\ g.grid_sell >= ne
    /\ g.grid_sell >= 0
    /\ g.grid_sell <= ne + M * (1 - g.delta)
    /\ g.grid_sell <= M * g.delta
    /\ g.grid_buy >= 0 - ne
    /\ g.grid_buy >= 0
    /\ g.grid_buy <= (0 - ne) + M * g.delta
    /\ g.grid_buy <= M * (1 - g.delta)

\* the values of GridBuy, GridSell and Delta over steps 0 .. t that satisfy
\* the buy/sell constraints, the batteries' values being `bat`
RECURSIVE GridSchedules(_, _, _)
GridSchedules(df, bat, t) ==
    IF t < 0 THEN { <<>> }
    ELSE LET ne == net_excess(df, bat, t)
             ok == { g \in [grid_buy : GridValues(ne), grid_sell : GridValues(ne),
                            delta : {0, 1}] : GridConstraints(ne, g) }
         IN  UNION { { Append(gs, g) : g \in ok }
                     : gs \in GridSchedules(df, bat, t - 1) }

\* the feasible points of the program built for `fleet` and frame `df`
Feasible(fleet, df) ==
    LET T == Len(df.index)
    IN  UNION { { [bat |-> bat, grid |-> grid] : grid \in GridSchedules(df, bat, T - 1) }
                : bat \in FleetSchedules(fleet, Len(fleet), T) }

\* total cost = sum over t of price[t] * (grid_buy[t] - grid_sell[t])
total_cost(df, point) ==
    SeqSum([i \in 1..Len(df.index) |->
               df.price[i] * (point.grid[i].grid_buy - point.grid[i].grid_sell)])

(***************************************************************************)
(* The solver (problem.solve with CBC, optimization.py 265-266).           *)
(***************************************************************************)
\* every variable at 0
ZeroPoint(fleet, T) ==
    [bat |-> [b_label \in Keys(fleet) |->
                 [i \in 1..T |-> [charge |-> 0, discharge |-> 0, soc |-> 0]]],
     grid |-> [i \in 1..T |-> [grid_buy |-> 0, grid_sell |-> 0, delta |-> 0]]]

\* every bounded variable at its upper bound
UpperPoint(fleet, T) ==
    [bat |-> [b_label \in Keys(fleet) |->
                 [i \in 1..T |->
                     [charge |-> Get(fleet, b_label).max_charge_kW,
                      discharge |-> Get(fleet, b_label).max_discharge_kW,
                      soc |-> Get(fleet, b_label).capacity_kWh]]],
     grid |-> [i \in 1..T |-> [grid_buy |-> 0, grid_sell |-> 0, delta |-> 1]]]

\* every battery charging at its limit on top of a full SOC: the SOC
\* variable above its upper bound
OverPoint(fleet, T) ==
    [bat |-> [b_label \in Keys(fleet) |->
                 [i \in 1..T |->
                     [charge |-> Get(fleet, b_label).max_charge_kW,
                      discharge |-> 0,
                      soc |-> Get(fleet, b_label).capacity_kWh
                              + MulEta(Get(fleet, b_label).max_charge_kW,
                                       Get(fleet, b_label).round_trip_efficiency)]]],
     grid |-> [i \in 1..T |-> [grid_buy |-> 0, grid_sell |-> 0, delta |-> 0]]]

\* what the solver can answer: with a feasible point, status Optimal and a
\* feasible point of least cost; without one, status Infeasible, and the
\* variables hold values that need not satisfy any constraint or bound
Solve(fleet, df) ==
    LET F == Feasible(fleet, df)
        costs == { total_cost(df, p) : p \in F }
        best == CHOOSE c \in costs : \A d \in costs : c <= d
    IN  IF F = {}
        THEN { [status |-> "Infeasible", values |-> v]
               : v \in {ZeroPoint(fleet, Len(df.index)), UpperPoint(fleet, Len(df.index)),
                        OverPoint(fleet, Len(df.index))} }
        ELSE { [status |-> "Optimal", values |-> p]
               : p \in {q \in F : total_cost(df, q) = best} }

(***************************************************************************)
(* optimize (optimization.py 107-317).                                     *)
(***************************************************************************)
\* the result rows with GridBuy and GridSell read once, at step 0
CollectGridOnce(fleet, df, point) ==
    LET T == Len(df.index)
        B == Len(fleet)
    IN  [k \in 1..(T * B) |->
            LET t == (k - 1) \div B
                b_label == fleet[((k - 1) % B) + 1].battery_id
            IN  [time |-> df.index[t + 1],
                 battery_id |-> b_label,
                 charge |-> battery_charge(point, b_label, t),
                 discharge |-> battery_discharge(point, b_label, t),
                 soc |-> battery_soc(point, b_label, t),
                 grid_buy |-> grid_buy(point, 0),
                 grid_sell |-> grid_sell(point, 0)]]

\* 7. Collect results: one row per time step per battery, time steps outside
Collect(fleet, df, point) ==
    LET T == Len(df.index)
        B == Len(fleet)
    IN  [k \in 1..(T * B) |->
            LET t == (k - 1) \div B
                b_label == fleet[((k - 1) % B) + 1].battery_id
            IN  [time |-> df.index[t + 1],
                 battery_id |-> b_label,
                 charge |-> battery_charge(point, b_label, t),
                 discharge |-> battery_discharge(point, b_label, t),
                 soc |-> battery_soc(point, b_label, t),
                 grid_buy |-> grid_buy(point, t),
                 grid_sell |-> grid_sell(point, t)]]

\* df_results["status"] = status; df_results["total_cost"] = value(total_cost)
WithColumns(results, status, cost) ==
    [k \in 1..Len(results) |->
        [time |-> results[k].time,
         battery_id |-> results[k].battery_id,
         charge |-> results[k].charge,
         discharge |-> results[k].discharge,
         soc |-> results[k].soc,
         grid_buy |-> results[k].grid_buy,
         grid_sell |-> results[k].grid_sell,
         status |-> status,
         total_cost |-> cost]]

\* the SOC of the first row of the table, whatever its battery
final_soc_first_row(df_results, b_label) == df_results[1].soc

\* df_results.loc[df_results["battery_id"] == b_label, "soc"].iloc[-1]
final_soc(df_results, b_label) ==
    LET sel == {k \in 1..Len(df_results) : df_results[k].battery_id = b_label}
        last == CHOOSE k \in sel : \A j \in sel : j <= k
    IN  df_results[last].soc

\* the final SOC written to capacity_kWh as well
WriteBackIntoCapacity(fleet, df_results) ==
    [i \in 1..Len(fleet) |->
        [fleet[i] EXCEPT !.current_soc_kWh = final_soc(df_results, fleet[i].battery_id),
                         !.capacity_kWh = final_soc(df_results, fleet[i].battery_id)]]

\* 8. every battery's current_soc_kWh set to its final SOC
WriteBack(fleet, df_results) ==
    [i \in 1..Len(fleet) |->
        [fleet[i] EXCEPT !.current_soc_kWh = final_soc(df_results, fleet[i].battery_id)]]

NoPoint == [bat |-> <<>>, grid |-> <<>>]

\* a call that ended in an exception
Raised(exc, df, fleet) ==
    [raised |-> exc, df |-> df, nvars |-> 0, solved |-> FALSE, status |-> "",
     values |-> NoPoint, df_results |-> <<>>, total_cost |-> 0, batteries |-> fleet]

\* the outcomes of optimize(fleet) run against database db: the exception
\* raised if any, the frame, the number of decision variables created, whether
\* the solver ran, its status and values, the table returned and the fleet
\* afterwards
optimize(fleet, db) ==
    LET loaded == load_optimization_data(db)
        df == loaded.df
        T == Len(df.index)
    IN  IF loaded.raised # ""
        THEN { Raised(loaded.raised, NoFrame, fleet) }
        ELSE IF fleet # <<>> /\ T = 0
        THEN { Raised("KeyError", df, fleet) }
        ELSE { LET cost == total_cost(df, s.values)
                   df_results ==
                       WithColumns(Collect(fleet, df, s.values), s.status, cost)
               IN  [raised |-> "", df |-> df,
                    nvars |-> 3 * T + 3 * T * Len(fleet),
                    solved |-> TRUE, status |-> s.status, values |-> s.values,
                    df_results |-> df_results, total_cost |-> cost,
                    batteries |-> WriteBack(fleet, df_results)]
               : s \in Solve(fleet, df) }

(***************************************************************************)
(* The HTTP routes over the registry (api/routes/batteries.py and          *)
(* api/routes/optimization.py).  `response` is the answer to the request   *)
(* last served, with the battery_id the request named (0 when it names     *)
(* none), `run` what the call of optimize it made did; a client sends its  *)
(* next request after it has read the response.                            *)
(***************************************************************************)
NoResponse == [op |-> "", battery_id |-> 0, code |-> 0, detail |-> ""]

NoRun ==
    [called |-> FALSE, fleet |-> <<>>,
     db |-> [solar |-> <<>>, wind |-> <<>>,
             load |-> Series(<<>>, <<>>), market |-> Series(<<>>, <<>>)]]
    @@ Raised("", NoFrame, <<>>)

Half == [num |-> 1, den |-> 2]

One == [num |-> 1, den |-> 1]

\* the bodies of POST /batteries
BatteryAddRequests ==
    [capacity_kWh : {8}, current_soc_kWh : {0 - 8, 8, 24},
     max_charge_kW : {8}, max_discharge_kW : {8}, eta : {Half}]
    \cup [capacity_kWh : {16}, current_soc_kWh : {0 - 8, 8, 24},
          max_charge_kW : {8}, max_discharge_kW : {8}, eta : {One}]

\* the bodies of POST /batteries/{id}/charge and /discharge
BatteryOperations == [power_kW : {0 - 8, 8, 16}, duration_h : {1, 2}]

\* the battery ids requests name
BatteryIds == 1..(MaxBatteries + 1)

Init ==
    /\ batteries = <<>>
    /\ response = NoResponse
    /\ run = NoRun
    /\ calls = <<>>
    /\ inflight = <<>>

\* POST /batteries
add_battery ==
    /\ response = NoResponse
    /\ Len(batteries) < MaxBatteries
    /\ \E battery \in BatteryAddRequests :
         LET battery_id == Len(batteries) + 1
             new_battery ==
                 Battery(battery_id, battery.capacity_kWh, battery.current_soc_kWh,
                         battery.max_charge_kW, battery.max_discharge_kW, battery.eta)
         IN  /\ batteries' = DictSet(batteries, new_battery)
             /\ response' = [op |-> "add_battery", battery_id |-> battery_id,
                              code |-> 200, detail |-> ""]
    /\ UNCHANGED <<run, calls, inflight>>

\* DELETE /batteries/{battery_id} answering success for an id that is not
\* registered
remove_battery_idempotent ==
    /\ response = NoResponse
    /\ \E battery_id \in BatteryIds :
         /\ batteries' = IF battery_id \in Keys(batteries)
                         THEN DictDel(batteries, battery_id)
                         ELSE batteries
         /\ response' = [op |-> "remove_battery", battery_id |-> battery_id,
                         code |-> 200, detail |-> "Battery removed successfully"]
    /\ UNCHANGED <<run, calls, inflight>>

\* DELETE /batteries/{battery_id}
remove_battery ==
    /\ response = NoResponse
    /\ \E battery_id \in BatteryIds :
         IF battery_id \notin Keys(batteries)
         THEN /\ response' = [op |-> "remove_battery", battery_id |-> battery_id,
                              code |-> 404, detail |-> "Battery not found"]
              /\ UNCHANGED batteries
         ELSE /\ batteries' = DictDel(batteries, battery_id)
              /\ response' = [op |-> "remove_battery", battery_id |-> battery_id,
                              code |-> 200, detail |-> "Battery removed successfully"]
    /\ UNCHANGED <<run, calls, inflight>>

\* POST /batteries/{battery_id}/charge
charge_battery ==
    /\ response = NoResponse
    /\ \E battery_id \in BatteryIds, operation \in BatteryOperations :
         IF battery_id \notin Keys(batteries)
         THEN /\ response' = [op |-> "charge_battery", battery_id |-> battery_id,
                              code |-> 404, detail |-> "Battery not found"]
              /\ UNCHANGED batteries
         ELSE /\ batteries' =
                     DictSet(batteries,
                             charge(Get(batteries, battery_id), operation.power_kW,
                                    operation.duration_h).battery)
              /\ response' = [op |-> "charge_battery", battery_id |-> battery_id,
                              code |-> 200, detail |-> ""]
    /\ UNCHANGED <<run, calls, inflight>>

\* POST /batteries/{battery_id}/discharge
discharge_battery ==
    /\ response = NoResponse
    /\ \E battery_id \in BatteryIds, operation \in BatteryOperations :
         IF battery_id \notin Keys(batteries)
         THEN /\ response' = [op |-> "discharge_battery", battery_id |-> battery_id,
                              code |-> 404, detail |-> "Battery not found"]
              /\ UNCHANGED batteries
         ELSE /\ batteries' =
                     DictSet(batteries,
                             discharge(Get(batteries, battery_id), operation.power_kW,
                                       operation.duration_h).battery)
              /\ response' = [op |-> "discharge_battery", battery_id |-> battery_id,
                              code |-> 200, detail |-> ""]
    /\ UNCHANGED <<run, calls, inflight>>

\* POST /optimize: 400 without batteries, else optimize(list(batteries.values())),
\* any exception answered 500
optimize_strategy ==
    /\ response = NoResponse
    /\ IF batteries = <<>>
       THEN /\ response' = [op |-> "optimize_strategy", battery_id |-> 0, code |-> 400,
                            detail |-> "No batteries available for optimization"]
            /\ UNCHANGED <<batteries, run>>
       ELSE \E db \in Databases :
              \E o \in optimize(batteries, db) :
                /\ run' = [called |-> TRUE, fleet |-> batteries, db |-> db] @@ o
                /\ batteries' = o.batteries
                /\ response' =
                     IF o.raised # ""
                     THEN [op |-> "optimize_strategy", battery_id |-> 0,
                           code |-> 500, detail |-> o.raised]
                     ELSE [op |-> "optimize_strategy", battery_id |-> 0,
                           code |-> 200, detail |-> ""]
    /\ UNCHANGED <<calls, inflight>>

\* the client has read the response
receive ==
    /\ response # NoResponse
    /\ response' = NoResponse
    /\ run' = NoRun
    /\ UNCHANGED <<batteries, calls, inflight>>

Next ==
    \/ add_battery
    \/ remove_battery
    \/ charge_battery
    \/ discharge_battery
    \/ optimize_strategy
    \/ receive

Spec == Init /\ [][Next]_vars

\* the routes that only build the registry and step single batteries
NextBattery ==
    \/ add_battery
    \/ remove_battery
    \/ charge_battery
    \/ discharge_battery
    \/ receive

SpecBattery == Init /\ [][NextBattery]_vars

(***************************************************************************)
(* A script that builds a Battery and calls its methods itself, as the     *)
(* example at the end of battery.py does.  `batteries` holds the one       *)
(* Battery object of the script, `calls` the calls made so far, oldest     *)
(* first: the method, its arguments, the object before and after the call, *)
(* the exception raised if any, and the value returned.                    *)
(***************************************************************************)
\* the Battery objects a script builds: efficiency 1/2, efficiency 1, and
\* efficiency 1 with a charge rate above the discharge rate
TestBatteries ==
    { Battery(1, 8, s, 8, 8, Half) : s \in {0, 8} }
    \cup { Battery(1, 16, s, 8, 8, One) : s \in {0, 8} }
    \cup { Battery(1, 16, s, 16, 8, One) : s \in {0, 8} }

\* the arguments of a call: any power, a positive duration
CallPowers == {0 - 8, 8, 16}

CallDurations == {1, 2}

\* the durations of a call that breaks the callers' contract (duration_h <= 0)
NonPositiveDurations == {0 - 1, 0}

Call(fn, power_kW, duration_h, before, result) ==
    [fn |-> fn, power_kW |-> power_kW, duration_h |-> duration_h,
     before |-> before, after |-> result.battery,
     raised |-> result.raised,
     returned |-> result.actual_power_kW]

InitCalls ==
    /\ batteries \in { <<bat>> : bat \in TestBatteries }
    /\ response = NoResponse
    /\ run = NoRun
    /\ calls = <<>>
    /\ inflight = <<>>

\* battery.charge(power_kW, duration_h)
charge_call ==
    /\ Len(calls) < MaxCalls
    /\ \E power_kW \in CallPowers, duration_h \in CallDurations :
         LET result == charge(batteries[1], power_kW, duration_h)
         IN  /\ batteries' = <<result.battery>>
             /\ calls' = Append(calls, Call("charge", power_kW, duration_h,
                                            batteries[1], result))
    /\ UNCHANGED <<response, run, inflight>>

\* battery.discharge(power_kW, duration_h)
discharge_call ==
    /\ Len(calls) < MaxCalls
    /\ \E power_kW \in CallPowers, duration_h \in CallDurations :
         LET result == discharge(batteries[1], power_kW, duration_h)
         IN  /\ batteries' = <<result.battery>>
             /\ calls' = Append(calls, Call("discharge", power_kW, duration_h,
                                            batteries[1], result))
    /\ UNCHANGED <<response, run, inflight>>

NextCalls ==
    \/ charge_call
    \/ discharge_call

SpecCalls == InitCalls /\ [][NextCalls]_vars

\* battery.charge(power_kW, duration_h) with duration_h <= 0
charge_call_nonpositive ==
    /\ Len(calls) < MaxCalls
    /\ \E power_kW \in CallPowers, duration_h \in NonPositiveDurations :
         LET result == charge(batteries[1], power_kW, duration_h)
         IN  /\ batteries' = <<result.battery>>
             /\ calls' = Append(calls, Call("charge", power_kW, duration_h,
                                            batteries[1], result))
    /\ UNCHANGED <<response, run, inflight>>

\* battery.discharge(power_kW, duration_h) with duration_h <= 0
discharge_call_nonpositive ==
    /\ Len(calls) < MaxCalls
    /\ \E power_kW \in CallPowers, duration_h \in NonPositiveDurations :
         LET result == discharge(batteries[1], power_kW, duration_h)
         IN  /\ batteries' = <<result.battery>>
             /\ calls' = Append(calls, Call("discharge", power_kW, duration_h,
                                            batteries[1], result))
    /\ UNCHANGED <<response, run, inflight>>

\* the calls of a script that keeps to no contract
NextAnyCalls ==
    \/ charge_call
    \/ discharge_call
    \/ charge_call_nonpositive
    \/ discharge_call_nonpositive

SpecAnyCalls == InitCalls /\ [][NextAnyCalls]_vars

(***************************************************************************)
(* A script that builds its own list of Battery objects and calls optimize *)
(* on it, as opt.py does: the registry and the routes take no part, `run`  *)
(* holds what the call did.                                                *)
(*                                                                         *)
(* The worked scenarios of the documentation (one battery of capacity 10,  *)
(* SOC 5, rates 2, efficiency 0.95, a single step) are written in units of *)
(* 1/40 kW and 1/40 kWh, which puts 2 kW, 0.95 * 2 kW and 6.9 kWh on the   *)
(* solver's lattice: 10 kWh is 400, 5 kWh is 200, 2 kW is 80.  Prices stay *)
(* per kW, so a cost of 1 is 40.  The program is linear in these units but *)
(* for M, and in every scenario |net_excess| stays below M in either unit, *)
(* where the eight buy/sell constraints select the same points.            *)
(***************************************************************************)
\* one kW, one kWh
kW == 40

\* Battery(capacity 10, soc 5, max_charge 2, max_discharge 2, eta 0.95)
ScenarioBattery ==
    Battery(1, 10 * kW, 5 * kW, 2 * kW, 2 * kW, [num |-> 19, den |-> 20])

\* a database of one solar source, one wind source and a single time step
OneStep(solar, wind, load, price) ==
    [solar |-> <<Series(Stamps(1, 0), <<solar>>)>>,
     wind |-> <<Series(Stamps(1, 0), <<wind>>)>>,
     load |-> Series(Stamps(1, 0), <<load>>),
     market |-> Series(Stamps(1, 0), <<price>>)]

\* solar=0, wind=0, load=0, price=50
ScenarioA == OneStep(0, 0, 0, 50)

\* solar=10, wind=0, load=0, price=50
ScenarioB == OneStep(10 * kW, 0, 0, 50)

\* solar=5, wind=0, load=8, price=20
ScenarioC == OneStep(5 * kW, 0, 8 * kW, 20)

\* Battery(i) with every other argument at its default (capacity 10, soc 5,
\* rates 2, efficiency 1)
DefaultBattery(i) == Battery(i, 10 * kW, 5 * kW, 2 * kW, 2 * kW, One)

\* Battery(1, capacity_kWh=0, ...): nothing checks the capacity
ZeroCapacityBattery(eta) == Battery(1, 0, 0, 8, 8, eta)

\* the lists of batteries a script passes: none, the scenarios' battery, a
\* default battery, a battery of capacity 0, one battery of the other kinds,
\* two batteries of different efficiency
ScriptFleets ==
    { <<>>, <<ScenarioBattery>>, <<DefaultBattery(1)>> }
    \cup { <<ZeroCapacityBattery(eta)>> : eta \in {Half, One} }
    \cup { <<bat>> : bat \in TestBatteries }
    \cup { <<Battery(1, 8, s, 8, 8, Half), Battery(2, 16, z, 8, 8, One)>>
           : s \in {0, 8}, z \in {0, 8} }

\* the forecasts the script's call finds in the database
ScriptDatabases == { ScenarioA, ScenarioB, ScenarioC } \cup AlignedDatabases(1)

\* batteries = [...]; df = optimize(batteries)
main ==
    /\ ~run.called
    /\ \E fleet \in ScriptFleets, db \in ScriptDatabases :
         \E o \in optimize(fleet, db) :
           run' = [called |-> TRUE, fleet |-> fleet, db |-> db] @@ o
    /\ UNCHANGED <<batteries, response, calls, inflight>>

\* the script ends
exit ==
    /\ run.called
    /\ run' = NoRun
    /\ UNCHANGED <<batteries, response, calls, inflight>>

NextScript ==
    \/ main
    \/ exit

SpecScript == Init /\ [][NextScript]_vars

(***************************************************************************)
(* POST /batteries with a body no battery can have.  BatteryAddRequest      *)
(* declares plain floats, Battery.__init__ checks nothing and optimize      *)
(* reads the attributes as they are.  The charge and discharge routes are   *)
(* left out: discharge divides by the efficiency.                           *)
(***************************************************************************)
Zero == [num |-> 0, den |-> 1]

\* bodies with a negative capacity or an efficiency of 0
InvalidBatteryAddRequests ==
    [capacity_kWh : {0 - 8}, current_soc_kWh : {8},
     max_charge_kW : {8}, max_discharge_kW : {8}, eta : {One}]
    \cup [capacity_kWh : {8}, current_soc_kWh : {8},
          max_charge_kW : {8}, max_discharge_kW : {8}, eta : {Zero}]

\* POST /batteries with such a body: the same handler
add_battery_invalid ==
    /\ response = NoResponse
    /\ Len(batteries) < MaxBatteries
    /\ \E battery \in InvalidBatteryAddRequests :
         LET battery_id == Len(batteries) + 1
             new_battery ==
                 Battery(battery_id, battery.capacity_kWh, battery.current_soc_kWh,
                         battery.max_charge_kW, battery.max_discharge_kW, battery.eta)
         IN  /\ batteries' = DictSet(batteries, new_battery)
             /\ response' = [op |-> "add_battery", battery_id |-> battery_id,
                              code |-> 200, detail |-> ""]
    /\ UNCHANGED <<run, calls, inflight>>

NextInvalid ==
    \/ add_battery
    \/ add_battery_invalid
    \/ remove_battery
    \/ optimize_strategy
    \/ receive

SpecInvalid == Init /\ [][NextInvalid]_vars

(***************************************************************************)
(* Requests served at the same time.  The routes are plain `def` handlers, *)
(* which the server runs on worker threads, and neither the routes nor     *)
(* optimize take a lock.  A POST /optimize is served in two steps: it      *)
(* takes list(batteries.values()), loads the forecasts and builds the      *)
(* program, reading every battery's current_soc_kWh (optimize_start);      *)
(* later the solver returns and the final SOCs are written to the same     *)
(* Battery objects (optimize_finish).  `inflight` holds the runs between   *)
(* the two steps: the batteries as they were read and the forecasts.  The  *)
(* charge and discharge routes are served in between as before.  The       *)
(* registry holds the batteries added beforehand and none is added or      *)
(* removed here, so every Battery object a run holds stays registered.     *)
(***************************************************************************)
\* the registry after one or two POST /batteries
RegisteredFleets ==
    { <<Battery(1, 16, 8, 8, 8, One)>>,
      <<Battery(1, 16, 8, 8, 8, One), Battery(2, 8, 8, 8, 8, Half)>> }

\* the forecasts a run served meanwhile finds: a single step in deficit
InFlightDatabases == { OneStep(0, 0, 8, 1) }

InitConcurrent ==
    /\ batteries \in RegisteredFleets
    /\ response = NoResponse
    /\ run = NoRun
    /\ calls = <<>>
    /\ inflight = <<>>

\* POST /optimize up to the program being built (optimization.py 141-260)
optimize_start ==
    /\ Len(inflight) < MaxInFlight
    /\ batteries # <<>>
    /\ \E db \in InFlightDatabases :
         inflight' = Append(inflight, [fleet |-> batteries, db |-> db])
    /\ UNCHANGED <<batteries, response, run, calls>>

\* bat.current_soc_kWh = final_soc on the Battery objects the run holds, seen
\* through the registry
WriteThrough(registry, after) ==
    [i \in 1..Len(registry) |->
        IF registry[i].battery_id \in Keys(after)
        THEN [registry[i] EXCEPT !.current_soc_kWh =
                 Get(after, registry[i].battery_id).current_soc_kWh]
        ELSE registry[i]]

\* POST /optimize from the solver's answer on (optimization.py 265-317)
optimize_finish ==
    /\ \E k \in 1..Len(inflight) :
         \E o \in optimize(inflight[k].fleet, inflight[k].db) :
           /\ batteries' = IF o.raised = "" THEN WriteThrough(batteries, o.batteries)
                           ELSE batteries
           /\ run' = [called |-> TRUE, fleet |-> inflight[k].fleet,
                      db |-> inflight[k].db] @@ o
           /\ inflight' = SubSeq(inflight, 1, k - 1)
                          \o SubSeq(inflight, k + 1, Len(inflight))
    /\ UNCHANGED <<response, calls>>

NextConcurrent ==
    \/ charge_battery
    \/ discharge_battery
    \/ receive
    \/ optimize_start
    \/ optimize_finish

SpecConcurrent == InitConcurrent /\ [][NextConcurrent]_vars

(***************************************************************************)
(* Properties.  `run` holds the last call of optimize: the fleet as it was *)
(* passed in (run.fleet), the frame (run.df), the table returned           *)
(* (run.df_results); `batteries` holds the fleet after the call.           *)
(***************************************************************************)
\* optimize returned a table
Returned == run.called /\ run.raised = ""

ReturnedOptimal == Returned /\ run.status = "Optimal"

Horizon == Len(run.df.index)

\* the rows of the returned table for battery b_label at step t
ResultRows(b_label, t) ==
    {k \in 1..Len(run.df_results) :
        /\ run.df_results[k].battery_id = b_label
        /\ run.df_results[k].time = run.df.index[t + 1]}

RowOf(b_label, t) == run.df_results[CHOOSE k \in ResultRows(b_label, t) : TRUE]

\* solar + wind - load + sum of (charge - discharge) over the rows of step t
NetExcessOfRows(t) ==
    run.df.solar[t + 1] + run.df.wind[t + 1] - run.df.load[t + 1]
    + SeqSum([i \in 1..Len(run.fleet) |->
                 RowOf(run.fleet[i].battery_id, t).charge
                 - RowOf(run.fleet[i].battery_id, t).discharge])

\* C1: in a solution optimize returns, every battery's SOC at step 0 is the
\* SOC the battery had when optimize was called, and at every later step t
\* soc[t] = soc[t-1] + eta * charge[t] - discharge[t].
C1_SocTrajectory ==
    ReturnedOptimal =>
        \A i \in 1..Len(run.fleet) :
            LET b == run.fleet[i]
                id == b.battery_id
            IN  /\ RowOf(id, 0).soc = b.current_soc_kWh
                /\ \A t \in 1..(Horizon - 1) :
                     RowOf(id, t).soc =
                         RowOf(id, t - 1).soc
                         + MulEta(RowOf(id, t).charge, b.round_trip_efficiency)
                         - RowOf(id, t).discharge

\* a two-step solution in which a battery of efficiency 1/2 charges at step 1
C1_Witness ==
    /\ ReturnedOptimal
    /\ Horizon >= 2
    /\ \E i \in 1..Len(run.fleet) :
         /\ run.fleet[i].round_trip_efficiency = Half
         /\ run.fleet[i].current_soc_kWh > 0
         /\ RowOf(run.fleet[i].battery_id, 1).charge > 0
         /\ RowOf(run.fleet[i].battery_id, 1).soc # RowOf(run.fleet[i].battery_id, 0).soc

\* C2: in a table returned with status Optimal no row both buys from and
\* sells to the grid: grid_buy * grid_sell = 0.
C2_MutualExclusion ==
    ReturnedOptimal =>
        \A k \in 1..Len(run.df_results) :
            run.df_results[k].grid_buy * run.df_results[k].grid_sell = 0

\* an optimal schedule that sells at one step and buys at another
C2_Witness ==
    /\ ReturnedOptimal
    /\ \E k, j \in 1..Len(run.df_results) :
         /\ run.df_results[k].grid_buy > 0
         /\ run.df_results[j].grid_sell > 0

\* C3: in a solution, at every step grid_sell - grid_buy equals
\* solar + wind - load + sum over the batteries of (charge - discharge), and
\* both are 0 when that net excess is 0.
C3_GridBalance ==
    ReturnedOptimal =>
        \A t \in 0..(Horizon - 1) :
            \A k \in 1..Len(run.df_results) :
                run.df_results[k].time = run.df.index[t + 1] =>
                    /\ run.df_results[k].grid_sell - run.df_results[k].grid_buy
                           = NetExcessOfRows(t)
                    /\ NetExcessOfRows(t) = 0 =>
                           /\ run.df_results[k].grid_buy = 0
                           /\ run.df_results[k].grid_sell = 0

\* a two-step solution with a step in deficit and a step at which charging
\* brings the net excess to exactly 0
C3_Witness ==
    /\ ReturnedOptimal
    /\ Horizon = 2
    /\ \E t \in 0..1 : NetExcessOfRows(t) < 0
    /\ \E t \in 0..1 :
         /\ NetExcessOfRows(t) = 0
         /\ RowOf(run.fleet[1].battery_id, t).charge
                # RowOf(run.fleet[1].battery_id, t).discharge

C5_FinalSocWrittenBack ==
    (Returned /\ Horizon >= 1) =>
        /\ Len(batteries) = Len(run.fleet)
        /\ \A i \in 1..Len(run.fleet) :
             /\ batteries[i].battery_id = run.fleet[i].battery_id
             /\ batteries[i].current_soc_kWh
                    = RowOf(run.fleet[i].battery_id, Horizon - 1).soc

\* two batteries ending a two-step run at different SOCs, one of them moved
C5_Witness ==
    /\ Returned
    /\ Horizon = 2
    /\ Len(run.fleet) = 2
    /\ batteries[1].current_soc_kWh # batteries[2].current_soc_kWh
    /\ batteries[1].current_soc_kWh # run.fleet[1].current_soc_kWh
    /\ RowOf(run.fleet[1].battery_id, 0).soc # RowOf(run.fleet[1].battery_id, 1).soc

\* C6: when the solver ends with a status other than Optimal, optimize
\* reports OptimizationFailed and returns no rows.
C6_NonOptimalReported ==
    (run.called /\ run.solved /\ run.status # "Optimal") =>
        /\ run.raised = "OptimizationFailed"
        /\ run.df_results = <<>>

\* C7: when the four forecast series differ in length or index, the call
\* ends in an error before any decision variable is created and before the
\* solver runs.
C7_MisalignmentRejected ==
    (run.called /\ ~Aligned(run.db)) =>
        /\ run.raised # ""
        /\ run.nvars = 0
        /\ ~run.solved

\* C8: on a forecast frame of zero steps optimize raises nothing, returns an
\* empty table with status "no data" and leaves every battery's SOC as it was.
C8_EmptyHorizonNoOp ==
    (run.called /\ Aligned(run.db) /\ run.db.load.index = <<>>) =>
        /\ run.raised = ""
        /\ run.status = "no data"
        /\ run.df_results = <<>>
        /\ batteries = run.fleet

\* C9: the table returned has exactly one row per (battery, step); the row
\* carries that battery's charge, discharge and soc of that step, the step's
\* grid_buy and grid_sell, and the run's status and total cost.
C9_OneRowPerPair ==
    Returned =>
        /\ Len(run.df_results) = Len(run.fleet) * Horizon
        /\ \A i \in 1..Len(run.fleet) :
             \A t \in 0..(Horizon - 1) :
                 LET id == run.fleet[i].battery_id
                     row == RowOf(id, t)
                 IN  /\ Cardinality(ResultRows(id, t)) = 1
                     /\ row.charge = battery_charge(run.values, id, t)
                     /\ row.discharge = battery_discharge(run.values, id, t)
                     /\ row.soc = battery_soc(run.values, id, t)
                     /\ row.grid_buy = grid_buy(run.values, t)
                     /\ row.grid_sell = grid_sell(run.values, t)
                     /\ row.status = run.status
                     /\ row.total_cost = run.total_cost

\* a table for two batteries over two steps whose grid exchange differs
\* between the steps and whose batteries differ within a step
C9_Witness ==
    /\ Returned
    /\ Len(run.fleet) = 2
    /\ Horizon = 2
    /\ Len(run.df_results) = 4
    /\ grid_sell(run.values, 0) # grid_sell(run.values, 1)
    /\ grid_buy(run.values, 0) # grid_buy(run.values, 1)
    /\ battery_soc(run.values, 1, 1) # battery_soc(run.values, 2, 1)

\* C10: after construction and after every charge and discharge call, every
\* battery's SOC lies within [0, capacity_kWh].
C10_SocWithinCapacity ==
    \A i \in 1..Len(batteries) :
        /\ 0 <= batteries[i].current_soc_kWh
        /\ batteries[i].current_soc_kWh <= batteries[i].capacity_kWh

\* a charge request has been served and leaves a battery of efficiency 1/2 at
\* exactly its capacity
C10_Witness ==
    /\ response.op = "charge_battery"
    /\ response.code = 200
    /\ \E i \in 1..Len(batteries) :
         /\ batteries[i].round_trip_efficiency = Half
         /\ batteries[i].current_soc_kWh = batteries[i].capacity_kWh

\* the requested power clamped to [0, limit]
Clamped(power_kW, limit) ==
    IF power_kW < 0 THEN 0 ELSE IF power_kW > limit THEN limit ELSE power_kW

\* C11: charge(p, d) with d > 0 from SOC s raises nothing, leaves the SOC at
\* s + e and returns e/d/eta, where e = min(p'*d*eta, capacity - s) and p' is
\* p clamped to [0, max_charge_kW].
C11_ChargeContract ==
    \A k \in 1..Len(calls) :
        (calls[k].fn = "charge" /\ calls[k].duration_h > 0) =>
            LET c == calls[k]
                eta == c.before.round_trip_efficiency
                s == c.before.current_soc_kWh
                p == Clamped(c.power_kW, c.before.max_charge_kW)
                full == p * c.duration_h * eta.num
                room == (c.before.capacity_kWh - s) * eta.den
                e_den == IF full <= room THEN full ELSE room
            IN  /\ c.raised = ""
                /\ (c.after.current_soc_kWh - s) * eta.den = e_den
                /\ c.returned * c.duration_h * eta.num = e_den

\* a charge of efficiency 1/2 cut short by the headroom: less power is
\* returned than was asked for, and the battery ends full
C11_Witness ==
    \E k \in 1..Len(calls) :
        /\ calls[k].fn = "charge"
        /\ calls[k].duration_h = 2
        /\ calls[k].before.round_trip_efficiency = Half
        /\ calls[k].before.current_soc_kWh = 4
        /\ calls[k].returned = 4
        /\ calls[k].returned < calls[k].power_kW
        /\ calls[k].after.current_soc_kWh = calls[k].before.capacity_kWh

\* C12: discharge(p, d) with d > 0 from SOC s raises nothing, leaves the SOC
\* at s - e/eta and returns e/d, where e = min(p'*d, s*eta) and p' is p
\* clamped to [0, max_discharge_kW].
C12_DischargeContract ==
    \A k \in 1..Len(calls) :
        (calls[k].fn = "discharge" /\ calls[k].duration_h > 0) =>
            LET c == calls[k]
                eta == c.before.round_trip_efficiency
                s == c.before.current_soc_kWh
                p == Clamped(c.power_kW, c.before.max_discharge_kW)
                asked == p * c.duration_h * eta.den
                held == s * eta.num
                e_den == IF asked <= held THEN asked ELSE held
            IN  /\ c.raised = ""
                /\ (s - c.after.current_soc_kWh) * eta.num = e_den
                /\ c.returned * c.duration_h * eta.den = e_den

\* a discharge of efficiency 1/2 cut short by the SOC: 8 kWh held deliver
\* 4 kWh, 2 kW over 2 h, and the battery ends empty
C12_Witness ==
    \E k \in 1..Len(calls) :
        /\ calls[k].fn = "discharge"
        /\ calls[k].duration_h = 2
        /\ calls[k].before.round_trip_efficiency = Half
        /\ calls[k].before.current_soc_kWh = 8
        /\ calls[k].returned = 2
        /\ calls[k].after.current_soc_kWh = 0

\* C13: a charge or discharge call with a negative power_kW and a positive
\* duration_h leaves current_soc_kWh as it was and returns 0.
C13_NegativePowerIsZero ==
    \A k \in 1..Len(calls) :
        (calls[k].power_kW < 0 /\ calls[k].duration_h > 0) =>
            /\ calls[k].raised = ""
            /\ calls[k].after.current_soc_kWh = calls[k].before.current_soc_kWh
            /\ calls[k].returned = 0

\* a charge and a discharge with negative power on a battery that is neither
\* empty nor full
C13_Witness ==
    /\ Len(calls) = 2
    /\ calls[1].fn = "charge" /\ calls[2].fn = "discharge"
    /\ calls[1].power_kW < 0 /\ calls[2].power_kW < 0
    /\ calls[1].before.current_soc_kWh > 0
    /\ calls[1].before.current_soc_kWh < calls[1].before.capacity_kWh
    /\ calls[2].after = calls[1].before

\* C14: a charge or discharge call with duration_h <= 0 raises
\* InvalidParameter and leaves current_soc_kWh as it was.
C14_NonPositiveDurationRejected ==
    \A k \in 1..Len(calls) :
        calls[k].duration_h <= 0 =>
            /\ calls[k].raised = "InvalidParameter"
            /\ calls[k].after.current_soc_kWh = calls[k].before.current_soc_kWh

\* calls k and k+1 are charge(p, h) then discharge(p, h) on a battery of
\* efficiency 1 with h > 0, headroom for p*h before the charge and at least
\* p*h held after it
RoundTripAt(k) ==
    /\ calls[k].fn = "charge"
    /\ calls[k + 1].fn = "discharge"
    /\ calls[k + 1].power_kW = calls[k].power_kW
    /\ calls[k + 1].duration_h = calls[k].duration_h
    /\ calls[k].duration_h > 0
    /\ calls[k].before.round_trip_efficiency = One
    /\ calls[k].before.capacity_kWh - calls[k].before.current_soc_kWh
           >= calls[k].power_kW * calls[k].duration_h
    /\ calls[k].after.current_soc_kWh >= calls[k].power_kW * calls[k].duration_h

\* C15 as stated: with eta = 1, h > 0, headroom for p*h and p*h held
\* afterwards, charge(p, h) followed by discharge(p, h) returns the SOC to
\* its value before the charge.
C15_RoundTrip ==
    \A k \in 1..(Len(calls) - 1) :
        RoundTripAt(k) =>
            calls[k + 1].after.current_soc_kWh = calls[k].before.current_soc_kWh

\* C15 amended: the same, for a power p that max_charge_kW and
\* max_discharge_kW clamp to the same value.
C15_RoundTripSameClamp ==
    \A k \in 1..(Len(calls) - 1) :
        (/\ RoundTripAt(k)
         /\ Clamped(calls[k].power_kW, calls[k].before.max_charge_kW)
                = Clamped(calls[k].power_kW, calls[k].before.max_discharge_kW)) =>
            calls[k + 1].after.current_soc_kWh = calls[k].before.current_soc_kWh

\* 8 kW over 2 h charged into an empty battery of efficiency 1 and
\* discharged again
C15_Witness ==
    /\ Len(calls) = 2
    /\ RoundTripAt(1)
    /\ calls[1].power_kW = 8
    /\ calls[1].duration_h = 2
    /\ calls[1].before.current_soc_kWh = 0
    /\ calls[1].after.current_soc_kWh = 16
    /\ calls[2].after.current_soc_kWh = 0

\* the call of optimize on `fleet` that found database `db`
Ran(fleet, db) == run.called /\ run.fleet = fleet /\ run.db = db

\* C16: Scenario B.  One battery (capacity 10, soc 5, rates 2, eta 0.95), a
\* single step with solar=10, wind=0, load=0, price=50: optimize returns
\* grid_sell = 8, soc = 6.9 and total_cost = -400.
C16_ScenarioB ==
    Ran(<<ScenarioBattery>>, ScenarioB) =>
        /\ run.raised = ""
        /\ Len(run.df_results) = 1
        /\ 10 * run.df_results[1].grid_sell = 80 * kW
        /\ 10 * run.df_results[1].soc = 69 * kW
        /\ run.df_results[1].total_cost = (0 - 400) * kW

\* C17: Scenario A.  The same battery, a single step with solar=0, wind=0,
\* load=0, price=50: optimize returns charge=0, discharge=0, grid_buy=0,
\* grid_sell=0, soc=5 and total_cost=0.
C17_ScenarioA ==
    Ran(<<ScenarioBattery>>, ScenarioA) =>
        /\ run.raised = ""
        /\ Len(run.df_results) = 1
        /\ run.df_results[1].charge = 0
        /\ run.df_results[1].discharge = 0
        /\ run.df_results[1].grid_buy = 0
        /\ run.df_results[1].grid_sell = 0
        /\ run.df_results[1].soc = 5 * kW
        /\ run.df_results[1].total_cost = 0

\* C18: Scenario C.  No battery, a single step with solar=5, wind=0, load=8,
\* price=20: the table optimize returns reports grid_buy=3, grid_sell=0 and
\* total_cost=60.
C18_ScenarioC ==
    Ran(<<>>, ScenarioC) =>
        /\ run.raised = ""
        /\ \E k \in 1..Len(run.df_results) :
             /\ run.df_results[k].grid_buy = 3 * kW
             /\ run.df_results[k].grid_sell = 0
             /\ run.df_results[k].total_cost = 60 * kW

\* C20: every POST /batteries assigns a battery_id that is not registered:
\* it adds exactly one battery and leaves every registered battery as it was.
C20_AddAssignsFreshId ==
    [][(response = NoResponse /\ response'.op = "add_battery") =>
          /\ Len(batteries') = Len(batteries) + 1
          /\ \A i \in 1..Len(batteries) : batteries'[i] = batteries[i]]_vars

\* C21: a remove, charge or discharge request naming a battery_id that is
\* not registered is answered 404 "Battery not found" and leaves the
\* registry as it was.
C21_UnknownIdNotFound ==
    [][(/\ response = NoResponse
        /\ response'.op \in {"remove_battery", "charge_battery", "discharge_battery"}
        /\ response'.battery_id \notin Keys(batteries)) =>
          /\ response'.code = 404
          /\ response'.detail = "Battery not found"
          /\ batteries' = batteries]_vars

\* a discharge request for battery_3 answered 404 by a registry that holds
\* battery_1 and battery_2, one of them charged
C21_Witness ==
    /\ response.op = "discharge_battery"
    /\ response.battery_id = 3
    /\ response.code = 404
    /\ Len(batteries) = 2
    /\ \E i \in 1..2 : batteries[i].current_soc_kWh > 0

\* C22: at most one optimization that uses a given Battery is in flight at a
\* time: no two runs in flight hold the same battery.
C22_OneRunPerBattery ==
    \A i, j \in 1..Len(inflight) :
        i # j => Keys(inflight[i].fleet) \cap Keys(inflight[j].fleet) = {}

\* a run has just finished: `run` holds it, the registry after its write-back
\* is batteries'
Finishing == Len(inflight') < Len(inflight)

\* the final SOC of battery b_label over the runs of optimize that start
\* from `fleet`
FinalSocs(fleet, db, b_label) ==
    { Get(o.batteries, b_label).current_soc_kWh : o \in optimize(fleet, db) }

\* C29: when a run finishes, a battery whose SOC a charge or discharge
\* request changed after the run had read it holds a SOC that reflects the
\* change: the final SOC of a run that starts from the changed SOC, or the
\* run's own final SOC moved by the change.
C29_ChargeNotLost ==
    [][Finishing =>
          \A i \in 1..Len(batteries) :
              LET b_label == batteries[i].battery_id
              IN  (/\ b_label \in Keys(run'.fleet)
                   /\ batteries[i].current_soc_kWh
                          # Get(run'.fleet, b_label).current_soc_kWh) =>
                      \/ batteries'[i].current_soc_kWh
                             \in FinalSocs(batteries, run'.db, b_label)
                      \/ run'.raised = ""
                         /\ batteries'[i].current_soc_kWh
                              = Get(run'.batteries, b_label).current_soc_kWh
                                + batteries[i].current_soc_kWh
                                - Get(run'.fleet, b_label).current_soc_kWh]_vars

\* C23: optimize changes nothing but current_soc_kWh of the batteries it was
\* given: after the call the list holds the same batteries in the same
\* order, each with its capacity_kWh, max_charge_kW, max_discharge_kW,
\* round_trip_efficiency and battery_id as before, and the forecast frame is
\* the frame that was loaded.
C23_OnlySocChanges ==
    run.called =>
        /\ Len(batteries) = Len(run.fleet)
        /\ \A i \in 1..Len(run.fleet) :
             [batteries[i] EXCEPT !.current_soc_kWh = run.fleet[i].current_soc_kWh]
                 = run.fleet[i]
        /\ load_optimization_data(run.db).raised = "" =>
               run.df = load_optimization_data(run.db).df

\* a two-step run over two batteries that moved the SOC of both
C23_Witness ==
    /\ Returned
    /\ Horizon = 2
    /\ Len(run.fleet) = 2
    /\ \A i \in 1..2 : batteries[i].current_soc_kWh # run.fleet[i].current_soc_kWh
    /\ batteries[1].capacity_kWh # batteries[2].capacity_kWh

\* C24: net excess is generation minus load minus net battery charging: in
\* a solution, at every step grid_sell - grid_buy equals
\* solar + wind - load - sum over the batteries of (charge - discharge), so
\* charging lowers what is sold and discharging raises it.
C24_ChargingLowersExcess ==
    ReturnedOptimal =>
        \A t \in 0..(Horizon - 1) :
            \A k \in 1..Len(run.df_results) :
                run.df_results[k].time = run.df.index[t + 1] =>
                    run.df_results[k].grid_sell - run.df_results[k].grid_buy
                        = run.df.solar[t + 1] + run.df.wind[t + 1] - run.df.load[t + 1]
                          - SeqSum([i \in 1..Len(run.fleet) |->
                                       RowOf(run.fleet[i].battery_id, t).charge
                                       - RowOf(run.fleet[i].battery_id, t).discharge])

\* C25: for a fleet of one battery of capacity 0, every row of a solution has
\* soc = 0, charge = 0 and discharge = 0.
C25_ZeroCapacityIdle ==
    (ReturnedOptimal /\ Len(run.fleet) = 1 /\ run.fleet[1].capacity_kWh = 0) =>
        \A k \in 1..Len(run.df_results) :
            /\ run.df_results[k].soc = 0
            /\ run.df_results[k].charge = 0
            /\ run.df_results[k].discharge = 0

\* C26: for every forecast frame and every fleet whose batteries hold a SOC
\* within [0, capacity] the program has a feasible point: the solver never
\* reports Infeasible.
C26_NeverInfeasible ==
    (/\ run.called
     /\ run.solved
     /\ \A i \in 1..Len(run.fleet) :
            /\ 0 <= run.fleet[i].current_soc_kWh
            /\ run.fleet[i].current_soc_kWh <= run.fleet[i].capacity_kWh) =>
        run.status # "Infeasible"

\* a battery no battery can be: negative capacity or efficiency <= 0
InvalidBattery(bat) ==
    bat.capacity_kWh < 0 \/ bat.round_trip_efficiency.num <= 0

\* C27: no battery with a negative capacity or a non-positive efficiency is
\* stored in the registry, and a call of optimize given one raises
\* InvalidBatteryParameter before any decision variable is created.
C27_InvalidBatteryRejected ==
    /\ \A i \in 1..Len(batteries) : ~InvalidBattery(batteries[i])
    /\ (run.called /\ \E i \in 1..Len(run.fleet) : InvalidBattery(run.fleet[i])) =>
           /\ run.raised = "InvalidBatteryParameter"
           /\ run.nvars = 0

\* C28: in a solution every battery's SOC of the last step is its SOC at
\* call time plus the sum over all steps, step 0 included, of
\* eta * charge - discharge.
C28_EnergyAccounted ==
    (ReturnedOptimal /\ Horizon >= 1) =>
        \A i \in 1..Len(run.fleet) :
            LET b == run.fleet[i]
            IN  RowOf(b.battery_id, Horizon - 1).soc
                    = b.current_soc_kWh
                      + SeqSum([k \in 1..Horizon |->
                                   MulEta(RowOf(b.battery_id, k - 1).charge,
                                          b.round_trip_efficiency)
                                   - RowOf(b.battery_id, k - 1).discharge])

\* C30: every battery in the registry has 0 <= current_soc_kWh <= capacity_kWh,
\* whatever requests were served and whatever status the solver reported.
C30_RegistrySocWithinCapacity ==
    \A i \in 1..Len(batteries) :
        /\ 0 <= batteries[i].current_soc_kWh
        /\ batteries[i].current_soc_kWh <= batteries[i].capacity_kWh

====
